---- MODULE Spec2Model ----
(***************************************************************************)
(* Model of pkg/sentry/kernel/seccomp.go: the per-task seccomp-bpf filter  *)
(* stack (an atomic.Value holding a []bpf.Program), its evaluation on a    *)
(* system call, the verdict dispatcher, filter installation and the        *)
(* thread-group synchronisation.                                           *)
(*                                                                         *)
(* A uint32 is a pair <<hi, lo>> of 16-bit halves (hi holds bits 16..31),  *)
(* a uint64 is a tuple of four 16-bit limbs, least significant first.      *)
(* A filter stack value is [nil |-> BOOLEAN, progs |-> sequence]: nil is   *)
(* the atomic.Value that was never stored, progs the stored slice.  Every  *)
(* slice the code stores is freshly allocated (append onto a nil slice),   *)
(* so stored slices are values here.                                       *)
(***************************************************************************)
EXTENDS Integers, Sequences, FiniteSets, TLC

(* ----------------------------- bounds ---------------------------------- *)
\* number of tasks in the thread group
NumTasks == 2
\* number of calls (install, sync, evaluation) the tasks make in one run
MaxCalls == 4
\* longest filter stack drawn for the sequential checkSeccompSyscall runs
MaxLen == 3
\* number of installs and syncs the tasks make in one fairly scheduled run
MaxLockCalls == 3

Tasks == 1..NumTasks

(* --------------------------- program constants ------------------------- *)
maxSyscallFilterInstructions == 32768

\* enum seccompResult
seccompResultDeny == 0
seccompResultAllow == 1
seccompResultKill == 2
seccompResultTrace == 3

\* linux.SECCOMP_RET_* as <<hi, lo>>
SECCOMP_RET_KILL == <<0, 0>>
SECCOMP_RET_TRAP == <<3, 0>>
SECCOMP_RET_ERRNO == <<5, 0>>
SECCOMP_RET_TRACE == <<32752, 0>>
SECCOMP_RET_ALLOW == <<32767, 0>>
SECCOMP_RET_ACTION == <<32767, 0>>
SECCOMP_RET_DATA == <<0, 65535>>

SECCOMP_MODE_NONE == 0
SECCOMP_MODE_FILTER == 2

\* syscall.ENOSYS, linux.SIGSYS, arch.SYS_SECCOMP
ENOSYS == 38
SIGSYS == 31
SYS_SECCOMP == 1

(* ----------------------------- integers -------------------------------- *)
\* bitwise and of two 16-bit values
RECURSIVE BitAnd(_, _)
BitAnd(a, b) ==
  IF a = 0 \/ b = 0 THEN 0
  ELSE (a % 2) * (b % 2) + 2 * BitAnd(a \div 2, b \div 2)

\* x & y on uint32
And32(x, y) == <<BitAnd(x[1], y[1]), BitAnd(x[2], y[2])>>

\* x < y on uint32
Less32(x, y) == x[1] < y[1] \/ (x[1] = y[1] /\ x[2] < y[2])

\* uintptr(x) of a uint32 x: four 16-bit limbs, least significant first
Uintptr(x) == <<x[2], x[1], 0, 0>>

\* -x on uintptr (64-bit two's complement): complement every limb, add one
Neg64(x) ==
  LET c == [i \in 1..4 |-> 65535 - x[i]]
      s1 == c[1] + 1
      s2 == c[2] + s1 \div 65536
      s3 == c[3] + s2 \div 65536
      s4 == c[4] + s3 \div 65536
  IN <<s1 % 65536, s2 % 65536, s3 % 65536, s4 % 65536>>

(* --------------------- bpf programs (the interpreter) ------------------ *)
\* The programs a task may install, the further programs of the drawn
\* stacks, and the system calls and instruction pointers of a call.
InstallProgs == {"errno5open", "kill59", "trap1"}
CheckProgs == {"allowAll", "trace7", "errno0", "allowData", "fault", "unk4"}
Programs == InstallProgs \cup CheckProgs
Syscalls == {2, 59, 60}
IPs == {4096}

\* bpf.Program.Length
Length(prog) ==
  CASE prog = "errno5open" -> 16382
    [] prog = "kill59" -> 16380
    [] prog = "trap1" -> 16385
    [] OTHER -> 1

Ok(v) == [ret |-> v, err |-> FALSE]
Fault == [ret |-> <<0, 0>>, err |-> TRUE]

\* bpf.Exec(prog, input): the 32-bit return value of the program, or an error
Exec(prog, input) ==
  CASE prog = "errno5open" -> IF input.nr = 2 THEN Ok(<<5, 5>>) ELSE Ok(SECCOMP_RET_ALLOW)
    [] prog = "kill59" -> IF input.nr = 59 THEN Ok(SECCOMP_RET_KILL) ELSE Ok(SECCOMP_RET_ALLOW)
    [] prog = "trap1" -> IF input.nr = 60 THEN Ok(SECCOMP_RET_ALLOW) ELSE Ok(<<3, 1>>)
    [] prog = "allowAll" -> Ok(SECCOMP_RET_ALLOW)
    [] prog = "trace7" -> Ok(<<32752, 7>>)
    [] prog = "errno0" -> Ok(<<5, 0>>)
    [] prog = "allowData" -> Ok(<<32767, 3>>)
    [] prog = "fault" -> IF input.nr = 60 THEN Ok(SECCOMP_RET_ALLOW) ELSE Fault
    [] prog = "unk4" -> Ok(<<4, 9>>)

\* seccompData / asBPFInput: the record handed to the interpreter (arch and
\* args are carried to the interpreter unread by this file)
seccompData(nr, ip) == [nr |-> nr, instructionPointer |-> ip]
NoInput == [nr |-> 0, instructionPointer |-> 0]

(* --------------------------- filter stacks ----------------------------- *)
\* The atomic.Value before its first Store, and one holding the slice s.
\* arr names the slice's backing array by the task it was allocated for.
NilFilters == [nil |-> TRUE, progs |-> <<>>, arr |-> 0]
Stored(s, o) == [nil |-> FALSE, progs |-> s, arr |-> o]

\* evaluateLoop with prctl(2)'s rule: the first non-allow result seen wins
RECURSIVE evaluateLoopFirstNonAllow(_, _, _, _)
evaluateLoopFirstNonAllow(progs, input, i, ret) ==
  IF i < 1 THEN ret
  ELSE LET r == Exec(progs[i], input)
           thisRet == IF r.err THEN SECCOMP_RET_KILL ELSE r.ret
       IN evaluateLoopFirstNonAllow(progs, input, i - 1,
            IF /\ And32(ret, SECCOMP_RET_ACTION) = SECCOMP_RET_ALLOW
               /\ And32(thisRet, SECCOMP_RET_ACTION) # SECCOMP_RET_ALLOW
            THEN thisRet ELSE ret)

\* evaluateLoop that logs a failing filter and goes on to the next one
RECURSIVE evaluateLoopSkipFault(_, _, _, _)
evaluateLoopSkipFault(progs, input, i, ret) ==
  IF i < 1 THEN ret
  ELSE LET r == Exec(progs[i], input)
       IN evaluateLoopSkipFault(progs, input, i - 1,
            IF /\ ~r.err
               /\ Less32(And32(r.ret, SECCOMP_RET_ACTION), And32(ret, SECCOMP_RET_ACTION))
            THEN r.ret ELSE ret)

\* evaluateLoop that also takes a result of equal action
RECURSIVE evaluateLoopTakesEqual(_, _, _, _)
evaluateLoopTakesEqual(progs, input, i, ret) ==
  IF i < 1 THEN ret
  ELSE LET r == Exec(progs[i], input)
           thisRet == IF r.err THEN SECCOMP_RET_KILL ELSE r.ret
       IN evaluateLoopTakesEqual(progs, input, i - 1,
            IF ~Less32(And32(ret, SECCOMP_RET_ACTION), And32(thisRet, SECCOMP_RET_ACTION))
            THEN thisRet ELSE ret)

\* the loop of evaluateSyscallFilters, from index i (1-based) down to 1
RECURSIVE evaluateLoop(_, _, _, _)
evaluateLoop(progs, input, i, ret) ==
  IF i < 1 THEN ret
  ELSE LET r == Exec(progs[i], input)
           thisRet == IF r.err THEN SECCOMP_RET_KILL ELSE r.ret
       IN evaluateLoop(progs, input, i - 1,
            IF Less32(And32(thisRet, SECCOMP_RET_ACTION), And32(ret, SECCOMP_RET_ACTION))
            THEN thisRet ELSE ret)

\* an evaluation that takes a task without filters to be killed
evaluateLoadedKillEmpty(sf, input) ==
  IF sf.nil \/ sf.progs = <<>> THEN SECCOMP_RET_KILL
  ELSE evaluateLoop(sf.progs, input, Len(sf.progs), SECCOMP_RET_ALLOW)

\* evaluateSyscallFilters once f := t.syscallFilters.Load() returned sf
evaluateLoaded(sf, input) ==
  IF sf.nil THEN SECCOMP_RET_ALLOW
  ELSE evaluateLoop(sf.progs, input, Len(sf.progs), SECCOMP_RET_ALLOW)

\* the number of bpf.Exec calls evaluateSyscallFilters makes on sf: none
\* when f is nil, else one per iteration of the loop
execCalls(sf) == IF sf.nil THEN 0 ELSE Len(sf.progs)

\* the sum over oldFilters of f.Length() + 4
RECURSIVE chargedLength(_)
chargedLength(progs) ==
  IF progs = <<>> THEN 0
  ELSE Length(Head(progs)) + 4 + chargedLength(Tail(progs))

\* the sum over oldFilters of f.Length() alone
RECURSIVE plainLength(_)
plainLength(progs) ==
  IF progs = <<>> THEN 0 ELSE Length(Head(progs)) + plainLength(Tail(progs))

\* totalLength without the penalty of 4 per installed filter
totalLengthNoPenalty(prog, sf) == Length(prog) + (IF sf.nil THEN 0 ELSE plainLength(sf.progs))

\* totalLength as AppendSyscallFilter computes it
totalLength(prog, sf) == Length(prog) + (IF sf.nil THEN 0 ELSE chargedLength(sf.progs))

\* a capacity test that rejects a total of exactly the limit
overLimitOrAt(total) == total >= maxSyscallFilterInstructions

\* the capacity test: totalLength > maxSyscallFilterInstructions
overLimit(total) == total > maxSyscallFilterInstructions

\* newFilters with p put in front of the installed filters
newFiltersInFront(sf, prog, t) == Stored(<<prog>> \o sf.progs, t)

\* newFilters = append(append(nil, oldFilters...), p), allocated by task t
newFilters(sf, prog, t) == Stored(Append(sf.progs, prog), t)

\* copiedFilters that is f's own slice whenever f holds one
copiedFiltersShared(sf, o) == IF sf.nil THEN Stored(<<>>, o) ELSE sf

\* copiedFilters as the loop body of the sync builds it from f for task o
copiedFilters(sf, o) == Stored(IF sf.nil THEN <<>> ELSE sf.progs, o)

\* SeccompMode once f := t.syscallFilters.Load() returned sf
SeccompModeOf(sf) ==
  IF ~sf.nil /\ Len(sf.progs) > 0 THEN SECCOMP_MODE_FILTER ELSE SECCOMP_MODE_NONE

(* ------------------------------- state --------------------------------- *)
VARIABLES
  syscallFilters,  \* Task.syscallFilters, per task
  mu,              \* Task.mu, per task: 0 when free, else the holding task
  tasksMu,         \* TaskSet.mu (t.tg.pidns.owner.mu): the set of read holders
  pc,              \* per task goroutine: where it is
  p,               \* AppendSyscallFilter's parameter
  input,           \* evaluateSyscallFilters' input := data.asBPFInput()
  f,               \* the value returned by the call's syscallFilters.Load()
  ot,              \* SyncSyscallFiltersToThreadGroup's loop variable
  retReg,          \* the task's return register (t.Arch().SetReturn)
  chk,             \* the last checkSeccompSyscall: arguments, effects, result
  calls,           \* the number of calls made so far
  returned,        \* the call that returned in the last step, if one did
  atLock,          \* history: the task's stack when its install took t.mu
  copyOf,          \* history: the task whose latest sync call stored this
                   \* task's stack, 0 once anything else has stored it
  visited,         \* history: the tasks the task's running sync has stored to
  fresh,           \* history: the task's latest sync has returned, and since
                   \* then no install and no other task's sync has run
  alone,           \* history: since the task's running or latest sync began,
                   \* no install and no other task's sync has run
  quiet,           \* history: fresh, and that latest sync ran alone
  batch            \* history: the syncs that ran overlapping one another
                   \* with no install meanwhile, and the stacks they loaded

conc == <<mu, tasksMu, pc, p, input, f, ot, calls, returned, atLock, copyOf, visited,
          fresh, alone, quiet, batch>>
vars == <<syscallFilters, mu, tasksMu, pc, p, input, f, ot, retReg, chk, calls,
          returned, atLock, copyOf, visited, fresh, alone, quiet, batch>>

\* no call returned in the last step
NoReturn == [t |-> 0, op |-> "none", err |-> "nil", ret |-> <<0, 0>>,
             input |-> NoInput, p |-> "", f |-> NilFilters, before |-> NilFilters,
             src |-> 0, visited |-> {}, again |-> FALSE, quiet |-> FALSE]

\* no syncs have overlapped since the last install
NoBatch == [ok |-> FALSE, tasks |-> {}, loaded |-> {}]

\* some task is inside SyncSyscallFiltersToThreadGroup / AppendSyscallFilter
syncRunning == \E u \in Tasks : pc[u] \in {"s_lock", "s_store", "s_runlock"}
installRunning == \E u \in Tasks : pc[u] \in {"a_load", "a_store"}

\* no checkSeccompSyscall was made yet
NoCheck == [t |-> 0, nr |-> 0, ip |-> 0, tracer |-> FALSE, verdict |-> <<0, 0>>,
            execs |-> 0, result |-> -1, sent |-> <<>>, notified |-> <<>>,
            setReturn |-> <<>>]

Init ==
  /\ syscallFilters = [t \in Tasks |-> NilFilters]
  /\ mu = [t \in Tasks |-> 0]
  /\ tasksMu = {}
  /\ pc = [t \in Tasks |-> "idle"]
  /\ p = [t \in Tasks |-> ""]
  /\ input = [t \in Tasks |-> NoInput]
  /\ f = [t \in Tasks |-> NilFilters]
  /\ ot = [t \in Tasks |-> 0]
  /\ retReg = [t \in Tasks |-> <<0, 0, 0, 0>>]
  /\ chk = NoCheck
  /\ calls = 0
  /\ returned = NoReturn
  /\ atLock = [t \in Tasks |-> NilFilters]
  /\ copyOf = [t \in Tasks |-> 0]
  /\ visited = [t \in Tasks |-> {}]
  /\ fresh = [t \in Tasks |-> FALSE]
  /\ alone = [t \in Tasks |-> FALSE]
  /\ quiet = [t \in Tasks |-> FALSE]
  /\ batch = NoBatch

(* ------------------------------ mutexes -------------------------------- *)
\* an Unlock that is forgotten
muUnlockLost(o) == mu

\* Task.mu after o.mu.Unlock()
muUnlock(o) == [mu EXCEPT ![o] = 0]

(* ------------------------ AppendSyscallFilter -------------------------- *)
\* an install that does not wait for t.mu
tLockFreeAlways(t) == TRUE

\* t.mu.Lock() returns once nobody holds t.mu
tLockFree(t) == mu[t] = 0

\* the call; t.mu.Lock()
AppendLock(t, prog) ==
  /\ pc[t] = "idle"
  /\ calls < MaxCalls
  /\ tLockFree(t)
  /\ calls' = calls + 1
  /\ mu' = [mu EXCEPT ![t] = t]
  /\ p' = [p EXCEPT ![t] = prog]
  /\ atLock' = [atLock EXCEPT ![t] = syscallFilters[t]]
  /\ pc' = [pc EXCEPT ![t] = "a_load"]
  /\ returned' = NoReturn
  /\ fresh' = [u \in Tasks |-> FALSE]
  /\ alone' = [u \in Tasks |-> FALSE]
  /\ quiet' = [u \in Tasks |-> FALSE]
  /\ batch' = NoBatch
  /\ UNCHANGED <<syscallFilters, tasksMu, input, f, ot, retReg, chk, copyOf, visited>>

\* sf := t.syscallFilters.Load(); the sum; the capacity test, which on
\* failure returns ENOMEM through the deferred t.mu.Unlock()
AppendLoad(t) ==
  /\ pc[t] = "a_load"
  /\ IF overLimit(totalLength(p[t], syscallFilters[t]))
     THEN /\ mu' = muUnlock(t)
          /\ pc' = [pc EXCEPT ![t] = "idle"]
          /\ p' = [p EXCEPT ![t] = ""]
          /\ atLock' = [atLock EXCEPT ![t] = NilFilters]
          /\ returned' = [NoReturn EXCEPT !.t = t, !.op = "append", !.err = "ENOMEM",
                                          !.p = p[t],
                                          !.f = syscallFilters[t], !.before = atLock[t],
                                          !.src = copyOf[t]]
          /\ f' = f
     ELSE /\ pc' = [pc EXCEPT ![t] = "a_store"]
          /\ f' = [f EXCEPT ![t] = syscallFilters[t]]
          /\ returned' = NoReturn
          /\ UNCHANGED <<mu, p, atLock>>
  /\ UNCHANGED <<syscallFilters, tasksMu, input, ot, retReg, chk, calls, copyOf, visited,
                 fresh, alone, quiet, batch>>

\* t.syscallFilters.Store(newFilters); return nil through the deferred
\* t.mu.Unlock()
AppendStore(t) ==
  /\ pc[t] = "a_store"
  /\ syscallFilters' = [syscallFilters EXCEPT ![t] = newFilters(f[t], p[t], t)]
  /\ mu' = muUnlock(t)
  /\ pc' = [pc EXCEPT ![t] = "idle"]
  /\ p' = [p EXCEPT ![t] = ""]
  /\ f' = [f EXCEPT ![t] = NilFilters]
  /\ atLock' = [atLock EXCEPT ![t] = NilFilters]
  /\ copyOf' = [copyOf EXCEPT ![t] = 0]
  /\ returned' = [NoReturn EXCEPT !.t = t, !.op = "append", !.p = p[t], !.f = f[t],
                                  !.before = atLock[t], !.src = copyOf[t]]
  /\ UNCHANGED <<tasksMu, input, ot, retReg, chk, calls, visited, fresh, alone, quiet,
                 batch>>

AppendSyscallFilter(t) ==
  \/ \E prog \in InstallProgs : AppendLock(t, prog)
  \/ AppendLoad(t)
  \/ AppendStore(t)

(* ------------------ SyncSyscallFiltersToThreadGroup -------------------- *)
\* t.tg.tasks from position from on: the next ot with ot.ThreadID() !=
\* t.ThreadID(), or NumTasks + 1 when the list is exhausted (ot == nil)
RECURSIVE nextOther(_, _)
nextOther(t, from) ==
  IF from > NumTasks THEN NumTasks + 1
  ELSE IF from # t THEN from
  ELSE nextOther(t, from + 1)

\* a sync that does not wait for ot.mu
otLockFreeAlways(t) == TRUE

\* ot.mu.Lock() returns once nobody holds ot.mu
otLockFree(t) == mu[ot[t]] = 0

\* a sync that adds the loaded filters to those the sibling already holds
snapshotOnto(t) == [f[t] EXCEPT !.progs = syscallFilters[ot[t]].progs \o @]

\* a sync that reads t.syscallFilters anew for every sibling
snapshotLive(t) == syscallFilters[t]

\* the f the loop body copies: the value loaded when the call began
snapshot(t) == f[t]

\* the call: f := t.syscallFilters.Load(); t.tg.pidns.owner.mu.RLock();
\* ot := t.tg.tasks.Front()
SyncLoad(t) ==
  /\ pc[t] = "idle"
  /\ calls < MaxCalls
  /\ calls' = calls + 1
  /\ f' = [f EXCEPT ![t] = syscallFilters[t]]
  /\ tasksMu' = tasksMu \cup {t}
  /\ ot' = [ot EXCEPT ![t] = nextOther(t, 1)]
  /\ pc' = [pc EXCEPT ![t] = IF nextOther(t, 1) > NumTasks THEN "s_runlock" ELSE "s_lock"]
  /\ copyOf' = [o \in Tasks |-> IF copyOf[o] = t THEN 0 ELSE copyOf[o]]
  /\ visited' = [visited EXCEPT ![t] = {}]
  /\ returned' = NoReturn
  /\ fresh' = [u \in Tasks |-> u = t /\ fresh[t]]
  /\ quiet' = [u \in Tasks |-> u = t /\ quiet[t]]
  /\ alone' = [u \in Tasks |-> u = t /\ ~syncRunning /\ ~installRunning]
  /\ batch' = IF syncRunning
              THEN (IF batch.ok
                    THEN [batch EXCEPT !.tasks = @ \cup {t},
                                       !.loaded = @ \cup {syscallFilters[t].progs}]
                    ELSE NoBatch)
              ELSE (IF installRunning THEN NoBatch
                    ELSE [ok |-> TRUE, tasks |-> {t}, loaded |-> {syscallFilters[t].progs}])
  /\ UNCHANGED <<syscallFilters, mu, p, input, retReg, chk, atLock>>

\* ot.mu.Lock()
SyncLock(t) ==
  /\ pc[t] = "s_lock"
  /\ otLockFree(t)
  /\ mu' = [mu EXCEPT ![ot[t]] = t]
  /\ pc' = [pc EXCEPT ![t] = "s_store"]
  /\ returned' = NoReturn
  /\ UNCHANGED <<syscallFilters, tasksMu, p, input, f, ot, retReg, chk, calls, atLock,
                 copyOf, visited, fresh, alone, quiet, batch>>

\* ot.syscallFilters.Store(copiedFilters); ot.mu.Unlock(); ot = ot.Next()
SyncStore(t) ==
  /\ pc[t] = "s_store"
  /\ syscallFilters' = [syscallFilters EXCEPT ![ot[t]] = copiedFilters(snapshot(t), ot[t])]
  /\ mu' = muUnlock(ot[t])
  /\ ot' = [ot EXCEPT ![t] = nextOther(t, ot[t] + 1)]
  /\ pc' = [pc EXCEPT ![t] = IF nextOther(t, ot[t] + 1) > NumTasks THEN "s_runlock" ELSE "s_lock"]
  /\ copyOf' = [copyOf EXCEPT ![ot[t]] = t]
  /\ visited' = [visited EXCEPT ![t] = visited[t] \cup {ot[t]}]
  /\ returned' = NoReturn
  /\ UNCHANGED <<tasksMu, p, input, f, retReg, chk, calls, atLock, fresh, alone, quiet,
                 batch>>

\* return nil through the deferred RUnlock()
SyncRUnlock(t) ==
  /\ pc[t] = "s_runlock"
  /\ tasksMu' = tasksMu \ {t}
  /\ pc' = [pc EXCEPT ![t] = "idle"]
  /\ f' = [f EXCEPT ![t] = NilFilters]
  /\ ot' = [ot EXCEPT ![t] = 0]
  /\ visited' = [visited EXCEPT ![t] = {}]
  /\ returned' = [NoReturn EXCEPT !.t = t, !.op = "sync", !.f = f[t],
                                  !.visited = visited[t], !.again = fresh[t],
                                  !.quiet = quiet[t]]
  /\ fresh' = [u \in Tasks |->
                 u = t /\ \A o \in Tasks \ {t} : pc[o] \in {"idle", "e_walk"}]
  /\ quiet' = [u \in Tasks |-> u = t /\ alone[t]]
  /\ UNCHANGED <<syscallFilters, mu, p, input, retReg, chk, calls, atLock, copyOf, alone,
                 batch>>

SyncSyscallFiltersToThreadGroup(t) ==
  \/ SyncLoad(t)
  \/ SyncLock(t)
  \/ SyncStore(t)
  \/ SyncRUnlock(t)

(* ---------------------- evaluateSyscallFilters ------------------------- *)
\* the call: input := data.asBPFInput(); f := t.syscallFilters.Load(); a
\* nil f returns ALLOW
EvaluateLoad(t, nr, ip) ==
  /\ pc[t] = "idle"
  /\ calls < MaxCalls
  /\ calls' = calls + 1
  /\ IF syscallFilters[t].nil
     THEN /\ returned' = [NoReturn EXCEPT !.t = t, !.op = "evaluate",
                                          !.input = seccompData(nr, ip),
                                          !.ret = SECCOMP_RET_ALLOW, !.f = syscallFilters[t]]
          /\ UNCHANGED <<pc, f, input>>
     ELSE /\ returned' = NoReturn
          /\ input' = [input EXCEPT ![t] = seccompData(nr, ip)]
          /\ f' = [f EXCEPT ![t] = syscallFilters[t]]
          /\ pc' = [pc EXCEPT ![t] = "e_walk"]
  /\ UNCHANGED <<syscallFilters, mu, tasksMu, p, ot, retReg, chk, atLock, copyOf, visited,
                 fresh, alone, quiet, batch>>

\* a loop that loads t.syscallFilters again instead of indexing f
walkedLive(t) == syscallFilters[t]

\* the slice the loop indexes: f.([]bpf.Program)
walked(t) == f[t]

\* the loop over f, and return ret
EvaluateWalk(t) ==
  /\ pc[t] = "e_walk"
  /\ returned' = [NoReturn EXCEPT !.t = t, !.op = "evaluate", !.input = input[t],
                                  !.ret = evaluateLoaded(walked(t), input[t]), !.f = f[t]]
  /\ pc' = [pc EXCEPT ![t] = "idle"]
  /\ f' = [f EXCEPT ![t] = NilFilters]
  /\ input' = [input EXCEPT ![t] = NoInput]
  /\ UNCHANGED <<syscallFilters, mu, tasksMu, p, ot, retReg, chk, calls, atLock, copyOf,
                 visited, fresh, alone, quiet, batch>>

evaluateSyscallFilters(t) ==
  \/ \E nr \in Syscalls, ip \in IPs : EvaluateLoad(t, nr, ip)
  \/ EvaluateWalk(t)

\* SeccompMode
SeccompMode(t) == SeccompModeOf(syscallFilters[t])

(* ------------------------ checkSeccompSyscall -------------------------- *)
\* seccompSiginfo
seccompSiginfo(t, errno, nr, ip) ==
  [Signo |-> SIGSYS, Errno |-> errno, Code |-> SYS_SECCOMP,
   CallAddr |-> ip, Syscall |-> nr, Arch |-> "AuditNumber"]

\* a switch whose default case lets the system call run
dispatchDefaultAllow(t, result, tracer, nr, ip) ==
  LET action == And32(result, SECCOMP_RET_ACTION)
      data == And32(result, SECCOMP_RET_DATA)
      none == [result |-> seccompResultAllow, sent |-> <<>>, notified |-> <<>>,
               setReturn |-> <<>>]
  IN CASE action = SECCOMP_RET_TRAP ->
            [none EXCEPT !.result = seccompResultDeny,
                         !.sent = <<[Signo |-> SIGSYS, Errno |-> data[2], Code |-> SYS_SECCOMP,
                                     CallAddr |-> ip, Syscall |-> nr, Arch |-> "AuditNumber"]>>]
       [] action = SECCOMP_RET_ERRNO ->
            [none EXCEPT !.result = seccompResultDeny,
                         !.setReturn = <<Neg64(Uintptr(data))>>]
       [] action = SECCOMP_RET_TRACE ->
            IF tracer
            THEN [none EXCEPT !.result = seccompResultTrace, !.notified = <<data[2]>>]
            ELSE [none EXCEPT !.result = seccompResultDeny, !.notified = <<data[2]>>,
                              !.setReturn = <<Neg64(<<ENOSYS, 0, 0, 0>>)>>]
       [] action = SECCOMP_RET_KILL ->
            [none EXCEPT !.result = seccompResultKill]
       [] OTHER -> none

\* a switch whose TRAP case also rewrites the return register
dispatchTrapSetsReturn(t, result, tracer, nr, ip) ==
  LET action == And32(result, SECCOMP_RET_ACTION)
      data == And32(result, SECCOMP_RET_DATA)
      none == [result |-> seccompResultKill, sent |-> <<>>, notified |-> <<>>,
               setReturn |-> <<>>]
  IN CASE action = SECCOMP_RET_TRAP ->
            [none EXCEPT !.result = seccompResultDeny,
                         !.sent = <<[Signo |-> SIGSYS, Errno |-> data[2], Code |-> SYS_SECCOMP,
                                     CallAddr |-> ip, Syscall |-> nr, Arch |-> "AuditNumber"]>>,
                         !.setReturn = <<Neg64(Uintptr(data))>>]
       [] action = SECCOMP_RET_ERRNO ->
            [none EXCEPT !.result = seccompResultDeny,
                         !.setReturn = <<Neg64(Uintptr(data))>>]
       [] action = SECCOMP_RET_TRACE ->
            IF tracer
            THEN [none EXCEPT !.result = seccompResultTrace, !.notified = <<data[2]>>]
            ELSE [none EXCEPT !.result = seccompResultDeny, !.notified = <<data[2]>>,
                              !.setReturn = <<Neg64(<<ENOSYS, 0, 0, 0>>)>>]
       [] action = SECCOMP_RET_ALLOW ->
            [none EXCEPT !.result = seccompResultAllow]
       [] OTHER -> none

\* a switch whose ERRNO case writes the error code without negating it
dispatchErrnoPositive(t, result, tracer, nr, ip) ==
  LET action == And32(result, SECCOMP_RET_ACTION)
      data == And32(result, SECCOMP_RET_DATA)
      none == [result |-> seccompResultKill, sent |-> <<>>, notified |-> <<>>,
               setReturn |-> <<>>]
  IN CASE action = SECCOMP_RET_TRAP ->
            [none EXCEPT !.result = seccompResultDeny,
                         !.sent = <<[Signo |-> SIGSYS, Errno |-> data[2], Code |-> SYS_SECCOMP,
                                     CallAddr |-> ip, Syscall |-> nr, Arch |-> "AuditNumber"]>>]
       [] action = SECCOMP_RET_ERRNO ->
            [none EXCEPT !.result = seccompResultDeny,
                         !.setReturn = <<Uintptr(data)>>]
       [] action = SECCOMP_RET_TRACE ->
            IF tracer
            THEN [none EXCEPT !.result = seccompResultTrace, !.notified = <<data[2]>>]
            ELSE [none EXCEPT !.result = seccompResultDeny, !.notified = <<data[2]>>,
                              !.setReturn = <<Neg64(<<ENOSYS, 0, 0, 0>>)>>]
       [] action = SECCOMP_RET_ALLOW ->
            [none EXCEPT !.result = seccompResultAllow]
       [] OTHER -> none

\* a switch whose default case denies the system call without killing
dispatchDefaultDeny(t, result, tracer, nr, ip) ==
  LET action == And32(result, SECCOMP_RET_ACTION)
      data == And32(result, SECCOMP_RET_DATA)
      none == [result |-> seccompResultDeny, sent |-> <<>>, notified |-> <<>>,
               setReturn |-> <<>>]
  IN CASE action = SECCOMP_RET_TRAP ->
            [none EXCEPT !.result = seccompResultDeny,
                         !.sent = <<[Signo |-> SIGSYS, Errno |-> data[2], Code |-> SYS_SECCOMP,
                                     CallAddr |-> ip, Syscall |-> nr, Arch |-> "AuditNumber"]>>]
       [] action = SECCOMP_RET_ERRNO ->
            [none EXCEPT !.result = seccompResultDeny,
                         !.setReturn = <<Neg64(Uintptr(data))>>]
       [] action = SECCOMP_RET_TRACE ->
            IF tracer
            THEN [none EXCEPT !.result = seccompResultTrace, !.notified = <<data[2]>>]
            ELSE [none EXCEPT !.result = seccompResultDeny, !.notified = <<data[2]>>,
                              !.setReturn = <<Neg64(<<ENOSYS, 0, 0, 0>>)>>]
       [] action = SECCOMP_RET_ALLOW ->
            [none EXCEPT !.result = seccompResultAllow]
       [] action = SECCOMP_RET_KILL ->
            [none EXCEPT !.result = seccompResultKill]
       [] OTHER -> none

\* The switch of checkSeccompSyscall on result: the seccompResult it returns,
\* the signals it sends, the data it hands to ptraceSeccomp and the values
\* it writes with SetReturn.  tracer is what ptraceSeccomp returns.
dispatch(t, result, tracer, nr, ip) ==
  LET action == And32(result, SECCOMP_RET_ACTION)
      data == And32(result, SECCOMP_RET_DATA)
      none == [result |-> seccompResultKill, sent |-> <<>>, notified |-> <<>>,
               setReturn |-> <<>>]
  IN CASE action = SECCOMP_RET_TRAP ->
            [none EXCEPT !.result = seccompResultDeny,
                         !.sent = <<seccompSiginfo(t, data[2], nr, ip)>>]
       [] action = SECCOMP_RET_ERRNO ->
            [none EXCEPT !.result = seccompResultDeny,
                         !.setReturn = <<Neg64(Uintptr(data))>>]
       [] action = SECCOMP_RET_TRACE ->
            IF tracer
            THEN [none EXCEPT !.result = seccompResultTrace, !.notified = <<data[2]>>]
            ELSE [none EXCEPT !.result = seccompResultDeny, !.notified = <<data[2]>>,
                              !.setReturn = <<Neg64(<<ENOSYS, 0, 0, 0>>)>>]
       [] action = SECCOMP_RET_ALLOW ->
            [none EXCEPT !.result = seccompResultAllow]
       [] OTHER -> none

\* checkSeccompSyscall, run to completion on the task goroutine
checkSeccompSyscall(t, nr, ip, tracer) ==
  \E result \in {evaluateLoaded(syscallFilters[t], seccompData(nr, ip))} :
    \E d \in {dispatch(t, result, tracer, nr, ip)} :
      /\ chk' = [t |-> t, nr |-> nr, ip |-> ip, tracer |-> tracer, verdict |-> result,
                 execs |-> execCalls(syscallFilters[t]), result |-> d.result, sent |-> d.sent, notified |-> d.notified,
                 setReturn |-> d.setReturn]
      /\ retReg' = IF d.setReturn = <<>> THEN retReg
                   ELSE [retReg EXCEPT ![t] = d.setReturn[Len(d.setReturn)]]
      /\ UNCHANGED <<syscallFilters, conc>>

\* the cost the capacity rule puts on a stack: the filters' lengths plus 4
\* for each filter beyond the first
RECURSIVE sumLength(_)
sumLength(progs) ==
  IF progs = <<>> THEN 0 ELSE Length(Head(progs)) + sumLength(Tail(progs))

stackCost(progs) ==
  IF progs = <<>> THEN 0 ELSE sumLength(progs) + 4 * (Len(progs) - 1)

\* the stacks task 1 may hold when the sequential runs start: never stored,
\* or any stack of at most MaxLen programs that installs can build
DrawnFilters ==
  {NilFilters} \cup
  {Stored(s, 1) : s \in {q \in UNION {[1..n -> Programs] : n \in 0..MaxLen} :
                          stackCost(q) <= maxSyscallFilterInstructions}}

InitCheck ==
  /\ syscallFilters \in {[t \in Tasks |-> IF t = 1 THEN v ELSE NilFilters] : v \in DrawnFilters}
  /\ mu = [t \in Tasks |-> 0]
  /\ tasksMu = {}
  /\ pc = [t \in Tasks |-> "idle"]
  /\ p = [t \in Tasks |-> ""]
  /\ input = [t \in Tasks |-> NoInput]
  /\ f = [t \in Tasks |-> NilFilters]
  /\ ot = [t \in Tasks |-> 0]
  /\ retReg = [t \in Tasks |-> <<0, 0, 0, 0>>]
  /\ chk = NoCheck
  /\ calls = 0
  /\ returned = NoReturn
  /\ atLock = [t \in Tasks |-> NilFilters]
  /\ copyOf = [t \in Tasks |-> 0]
  /\ visited = [t \in Tasks |-> {}]
  /\ fresh = [t \in Tasks |-> FALSE]
  /\ alone = [t \in Tasks |-> FALSE]
  /\ quiet = [t \in Tasks |-> FALSE]
  /\ batch = NoBatch

NextCheck ==
  \E t \in Tasks, nr \in Syscalls, ip \in IPs, tracer \in BOOLEAN :
    checkSeccompSyscall(t, nr, ip, tracer)

SpecCheck == InitCheck /\ [][NextCheck]_vars

Next ==
  \E t \in Tasks :
    \/ AppendSyscallFilter(t)
    \/ SyncSyscallFiltersToThreadGroup(t)
    \/ evaluateSyscallFilters(t)

Spec == Init /\ [][Next]_vars

\* The calls that take locks: installs and syncs of the tasks of the group.
NextLocks ==
  \E t \in Tasks :
    \/ calls < MaxLockCalls /\ \E prog \in InstallProgs : AppendLock(t, prog)
    \/ calls < MaxLockCalls /\ SyncLoad(t)
    \/ AppendLoad(t)
    \/ AppendStore(t)
    \/ SyncLock(t)
    \/ SyncStore(t)
    \/ SyncRUnlock(t)

\* A step of an install or sync of task t that has begun.
Continue(t) ==
  \/ AppendLoad(t)
  \/ AppendStore(t)
  \/ SyncLock(t)
  \/ SyncStore(t)
  \/ SyncRUnlock(t)

\* The goroutine of a task is scheduled again and again, so a step of its
\* call that stays possible is taken in the end; for the wait in
\* ot.mu.Lock() this asks less of sync.Mutex than its starvation mode gives.
Fairness == \A t \in Tasks : WF_vars(Continue(t))

SpecFair == Init /\ [][NextLocks]_vars /\ Fairness
(* ======================= properties of the core ======================== *)
actionOf(v) == And32(v, SECCOMP_RET_ACTION)

\* what the reduction takes filter prog to return: its return value, or
\* KILL when the interpreter fails
filterVerdict(prog, in) == IF Exec(prog, in).err THEN SECCOMP_RET_KILL ELSE Exec(prog, in).ret

stackActions(progs, in) == {actionOf(filterVerdict(progs[i], in)) : i \in 1..Len(progs)}

\* the least action code of a non-empty set
minAction(S) == CHOOSE a \in S : \A b \in S : ~Less32(b, a)

\* every install order of the filters of progs
installOrders(progs) ==
  {[i \in 1..Len(progs) |-> progs[pi[i]]] : pi \in Permutations(1..Len(progs))}

\* the reduction, said without the loop: the verdict of the most recently
\* installed filter among those of least action, and plain ALLOW when that
\* least action is ALLOW
reduction(sf, in) ==
  IF sf.nil \/ sf.progs = <<>> THEN SECCOMP_RET_ALLOW
  ELSE LET m == minAction(stackActions(sf.progs, in))
           last == CHOOSE i \in 1..Len(sf.progs) :
                     /\ actionOf(filterVerdict(sf.progs[i], in)) = m
                     /\ \A j \in (i + 1)..Len(sf.progs) :
                          actionOf(filterVerdict(sf.progs[j], in)) # m
       IN IF m = SECCOMP_RET_ALLOW THEN SECCOMP_RET_ALLOW
          ELSE filterVerdict(sf.progs[last], in)

checked == chk.result # -1
checkedStack == syscallFilters[chk.t].progs
checkedInput == seccompData(chk.nr, chk.ip)

\* C1 (precedence law): for a non-empty stack the action code of the
\* combined verdict is the least action code any filter of the stack
\* returns, and so is that of the verdict of every other install order of
\* the same filters.
C1_PrecedenceLaw ==
  (checked /\ Len(checkedStack) > 0) =>
    /\ actionOf(chk.verdict) = minAction(stackActions(checkedStack, checkedInput))
    /\ \A q \in installOrders(checkedStack) :
         actionOf(evaluateLoop(q, checkedInput, Len(q), SECCOMP_RET_ALLOW))
           = minAction(stackActions(checkedStack, checkedInput))

\* a stack whose least action comes from the first installed filter only,
\* which the loop reaches last
C1_Witness ==
  /\ checked
  /\ Len(checkedStack) >= 2
  /\ actionOf(chk.verdict) = actionOf(filterVerdict(checkedStack[1], checkedInput))
  /\ \A i \in 2..Len(checkedStack) :
       Less32(actionOf(chk.verdict), actionOf(filterVerdict(checkedStack[i], checkedInput)))

\* C2 (capacity invariant): every task's published stack costs at most
\* 32768: the lengths of its filters plus 4 for each filter beyond the
\* first, whatever installs and syncs have run.
C2_CapacityInvariant ==
  \A t \in Tasks : stackCost(syscallFilters[t].progs) <= maxSyscallFilterInstructions

\* a sync has returned that copied a stack of cost exactly 32768 to a sibling
C2_Witness ==
  /\ returned.op = "sync"
  /\ \E o \in Tasks \ {returned.t} :
       /\ copyOf[o] = returned.t
       /\ stackCost(syscallFilters[o].progs) = maxSyscallFilterInstructions

\* the step in which task t takes t.mu for an install
AppendLockStep(t) == pc[t] = "idle" /\ pc'[t] = "a_load"
\* the step in which the install of task t returns ENOMEM
AppendFailStep(t) == pc[t] = "a_load" /\ pc'[t] = "idle"
\* the step in which the install of task t stores and returns nil
AppendStoreStep(t) == pc[t] = "a_store" /\ pc'[t] = "idle"
\* any step of an install of task t
AppendStep(t) == AppendLockStep(t) \/ (pc[t] \in {"a_load", "a_store"} /\ pc'[t] # pc[t])
\* any step of a sync of task t
SyncStep(t) ==
  \/ pc[t] = "idle" /\ pc'[t] \in {"s_lock", "s_runlock"}
  \/ pc[t] \in {"s_lock", "s_store", "s_runlock"} /\ pc'[t] # pc[t]

\* C3 (a failed install changes nothing): when an install returns ENOMEM
\* the task's stack is the one it had when the call took the task's mutex,
\* its mode is the same, and the steps of that call change no task's stack.
C3_FailedInstallChangesNothing ==
  /\ [](returned.op = "append" /\ returned.err = "ENOMEM" =>
          /\ syscallFilters[returned.t] = returned.before
          /\ SeccompMode(returned.t) = SeccompModeOf(returned.before))
  /\ [][\A t \in Tasks : (AppendLockStep(t) \/ AppendFailStep(t)) =>
          syscallFilters' = syscallFilters]_vars

\* an install failed on a task with filters while a sync holding another
\* stack was waiting for that task's mutex
C3_Witness ==
  /\ returned.op = "append"
  /\ returned.err = "ENOMEM"
  /\ Len(returned.before.progs) > 0
  /\ \E u \in Tasks :
       /\ pc[u] = "s_lock"
       /\ ot[u] = returned.t
       /\ f[u].progs # syscallFilters[returned.t].progs

\* C4 (mode never flips back): a task whose SeccompMode is FILTER has
\* SeccompMode FILTER after every step of any install or sync.
C4_ModeNeverFlipsBack ==
  [][\A t \in Tasks : SeccompMode(t) = SECCOMP_MODE_FILTER =>
        SeccompModeOf(syscallFilters'[t]) = SECCOMP_MODE_FILTER]_vars

\* C5 as first stated: when a sync returns, every other task holds the
\* stack the sync loaded.
C5_SyncLawAtReturn ==
  returned.op = "sync" =>
    \A o \in Tasks \ {returned.t} : syscallFilters[o].progs = returned.f.progs

\* C5 (sync law, amended): a sync stores to every other task before it
\* returns; when it returns, every other task that nothing else has stored
\* to since holds the filters the sync loaded, in the same order, and
\* evaluates every system call as that stack does; no step of a sync
\* writes the syncing task's own stack.
C5_SyncLaw ==
  /\ [](returned.op = "sync" =>
          /\ returned.visited = Tasks \ {returned.t}
          /\ \A o \in Tasks \ {returned.t} :
               copyOf[o] = returned.t =>
                 /\ ~syscallFilters[o].nil
                 /\ syscallFilters[o].progs = returned.f.progs
                 /\ \A nr \in Syscalls, ip \in IPs :
                      evaluateLoaded(syscallFilters[o], seccompData(nr, ip))
                        = evaluateLoaded(returned.f, seccompData(nr, ip)))
  /\ [][\A t \in Tasks : SyncStep(t) => syscallFilters'[t] = syscallFilters[t]]_vars

\* a sync of a stack of two different filters returned with every sibling
\* still holding its copy
C5_Witness ==
  /\ returned.op = "sync"
  /\ Len(returned.f.progs) = 2
  /\ returned.f.progs[1] # returned.f.progs[2]
  /\ \A o \in Tasks \ {returned.t} :
       copyOf[o] = returned.t /\ syscallFilters[o].progs = returned.f.progs

\* C6 (independent copies): no two tasks' published stacks share a backing
\* array, and a step of an install on a task changes no other task's stack.
C6_IndependentCopies ==
  /\ [](\A t, u \in Tasks :
          (t # u /\ ~syscallFilters[t].nil /\ ~syscallFilters[u].nil) =>
            syscallFilters[t].arr # syscallFilters[u].arr)
  /\ [][\A x \in Tasks : AppendStep(x) =>
          \A u \in Tasks \ {x} : syscallFilters'[u] = syscallFilters[u]]_vars

\* an install returned on a task whose stack was a copy made by a sync of
\* task src, and src still holds the stack it copied
C6_Witness ==
  /\ returned.op = "append"
  /\ returned.err = "nil"
  /\ returned.src # 0
  /\ Len(returned.f.progs) > 0
  /\ syscallFilters[returned.src].progs = returned.f.progs
  /\ Len(syscallFilters[returned.t].progs) = Len(returned.f.progs) + 1

\* C7 (no lost install): between an install's load and its store the
\* task's stack does not change, and the store publishes the stack the task
\* holds at that instant with the new filter appended.
C7_NoLostInstall ==
  /\ [](\A x \in Tasks : pc[x] = "a_store" => f[x] = syscallFilters[x])
  /\ [][\A x \in Tasks : AppendStoreStep(x) =>
          syscallFilters'[x].progs = Append(syscallFilters[x].progs, p[x])]_vars

\* an install sits between its load and its store while a sync holding a
\* different stack waits for the task's mutex
C7_Witness ==
  \E x, t \in Tasks :
    /\ pc[x] = "a_store"
    /\ pc[t] = "s_lock"
    /\ ot[t] = x
    /\ f[t].progs # syscallFilters[x].progs

\* C8 (atomic reads): an evaluation loads the stack published on its task
\* at that instant, and the verdict it returns is the reduction over that
\* loaded stack, also when the task's stack is replaced during the walk.
C8_AtomicReads ==
  /\ [](returned.op = "evaluate" => returned.ret = reduction(returned.f, returned.input))
  /\ [][\A t \in Tasks : (pc[t] = "idle" /\ pc'[t] = "e_walk") =>
          f'[t] = syscallFilters[t]]_vars

\* an evaluation returned the verdict of the stack it had loaded after a
\* sync or install had replaced the task's stack by one of another verdict
C8_Witness ==
  /\ returned.op = "evaluate"
  /\ ~returned.f.nil
  /\ returned.f # syscallFilters[returned.t]
  /\ returned.ret # reduction(syscallFilters[returned.t], returned.input)

\* C9 (fail closed on interpreter error): when the interpreter fails on a
\* filter of the stack, checkSeccompSyscall returns Kill whatever the other
\* filters return; it returns one of the four results and never an error.
C9_FailClosed ==
  checked =>
    /\ chk.result \in {seccompResultDeny, seccompResultAllow, seccompResultKill,
                       seccompResultTrace}
    /\ (\E i \in 1..Len(checkedStack) : Exec(checkedStack[i], checkedInput).err) =>
         chk.result = seccompResultKill

\* the failing filter was installed first, under filters that return
\* something other than ALLOW and KILL
C9_Witness ==
  /\ checked
  /\ Len(checkedStack) >= 2
  /\ Exec(checkedStack[1], checkedInput).err
  /\ \A i \in 2..Len(checkedStack) :
       /\ ~Exec(checkedStack[i], checkedInput).err
       /\ actionOf(Exec(checkedStack[i], checkedInput).ret)
            \notin {SECCOMP_RET_ALLOW, SECCOMP_RET_KILL}
  /\ chk.result = seccompResultKill

\* the table of C10
outcomeTable(action, tracer) ==
  IF action \in {SECCOMP_RET_TRAP, SECCOMP_RET_ERRNO} THEN seccompResultDeny
  ELSE IF action = SECCOMP_RET_TRACE
       THEN (IF tracer THEN seccompResultTrace ELSE seccompResultDeny)
  ELSE IF action = SECCOMP_RET_ALLOW THEN seccompResultAllow
  ELSE seccompResultKill

\* C10 (outcome table): the result of checkSeccompSyscall is given by the
\* combined verdict's action code and the tracer's answer: TRAP and ERRNO
\* Deny, TRACE Trace with a tracer and Deny without, ALLOW Allow, KILL and
\* every other action code Kill; Allow only for ALLOW.
C10_OutcomeTable ==
  checked =>
    /\ chk.verdict = evaluateLoaded(syscallFilters[chk.t], checkedInput)
    /\ chk.result = outcomeTable(actionOf(chk.verdict), chk.tracer)
    /\ (chk.result = seccompResultAllow => actionOf(chk.verdict) = SECCOMP_RET_ALLOW)

\* an action code outside the five known ones was the combined verdict
C10_Witness ==
  /\ checked
  /\ actionOf(chk.verdict) \notin {SECCOMP_RET_KILL, SECCOMP_RET_TRAP, SECCOMP_RET_ERRNO,
                                   SECCOMP_RET_TRACE, SECCOMP_RET_ALLOW}
  /\ chk.result = seccompResultKill

\* the side effects of the last checkSeccompSyscall: a signal sent, the
\* return register written, a tracer that took the notification
\* (ptraceSeccomp returned true), the task to be killed
sideEffects ==
  (IF chk.sent # <<>> THEN {"signal"} ELSE {}) \cup
  (IF chk.setReturn # <<>> THEN {"setReturn"} ELSE {}) \cup
  (IF chk.notified # <<>> /\ chk.tracer THEN {"notification"} ELSE {}) \cup
  (IF chk.result = seccompResultKill THEN {"kill"} ELSE {})

\* C11 as first stated: every call performs exactly one of the four side
\* effects.
C11_ExactlyOneEffect == checked => Cardinality(sideEffects) = 1

\* C11 (single side effect, amended): a call performs at most one of signal
\* delivery, return-register write, tracer notification and Kill, each at
\* most once; it performs none exactly when the combined action is ALLOW.
C11_AtMostOneEffect ==
  checked =>
    /\ Cardinality(sideEffects) <= 1
    /\ Len(chk.sent) <= 1 /\ Len(chk.setReturn) <= 1 /\ Len(chk.notified) <= 1
    /\ (sideEffects = {} <=> actionOf(chk.verdict) = SECCOMP_RET_ALLOW)
    /\ (chk.notified # <<>> => actionOf(chk.verdict) = SECCOMP_RET_TRACE)

\* a TRAP verdict was dispatched: one signal, nothing else
C11_Witness ==
  /\ checked
  /\ actionOf(chk.verdict) = SECCOMP_RET_TRAP
  /\ sideEffects = {"signal"}

\* C12 (empty-stack law): on a task whose stack was never stored, or is
\* empty as a sync from a task without filters leaves it, the evaluation
\* returns ALLOW and calls the interpreter not once, and checkSeccompSyscall
\* returns Allow, sends no signal, leaves the return register alone and asks
\* no tracer.
C12_EmptyStackLaw ==
  (checked /\ syscallFilters[chk.t] \in {NilFilters, copiedFilters(NilFilters, chk.t)}) =>
    /\ chk.verdict = SECCOMP_RET_ALLOW
    /\ chk.execs = 0
    /\ chk.result = seccompResultAllow
    /\ chk.sent = <<>> /\ chk.setReturn = <<>> /\ chk.notified = <<>>
    /\ retReg[chk.t] = <<0, 0, 0, 0>>

\* the checked task holds the empty stack a sync from a task without
\* filters stores
C12_Witness ==
  /\ checked
  /\ syscallFilters[chk.t] = copiedFilters(NilFilters, chk.t)
  /\ chk.result = seccompResultAllow

\* (2^64 - d) mod 2^64 for a 16-bit d, as four 16-bit limbs
negated64(d) == IF d = 0 THEN <<0, 0, 0, 0>> ELSE <<65536 - d, 65535, 65535, 65535>>

\* C13 (ERRNO rewrite): on a combined verdict of action ERRNO with data d
\* checkSeccompSyscall writes (2^64 - d) mod 2^64 to the task's return
\* register and returns Deny; a call whose verdict is neither ERRNO nor
\* TRACE without a tracer changes no return register, and no call changes
\* another task's.
C13_ErrnoRewrite ==
  /\ []((checked /\ actionOf(chk.verdict) = SECCOMP_RET_ERRNO) =>
          /\ retReg[chk.t] = negated64(chk.verdict[2])
          /\ chk.setReturn = <<negated64(chk.verdict[2])>>
          /\ chk.result = seccompResultDeny)
  /\ [][/\ \A u \in Tasks \ {chk'.t} : retReg'[u] = retReg[u]
        /\ (\/ actionOf(chk'.verdict) = SECCOMP_RET_ERRNO
            \/ (actionOf(chk'.verdict) = SECCOMP_RET_TRACE /\ ~chk'.tracer)
            \/ retReg' = retReg)]_vars

\* open was denied with ERRNO 5, the register holding -5, and then a call
\* that was allowed left -5 in the register
C13_Witness ==
  /\ checked
  /\ actionOf(chk.verdict) = SECCOMP_RET_ALLOW
  /\ retReg[chk.t] = <<65531, 65535, 65535, 65535>>

\* the step in which the sync of task t stores to a sibling
SyncStoreStep(t) == pc[t] = "s_store" /\ pc'[t] # "s_store"

\* C14 as first stated: when task t runs its sync again after its sync
\* returned, with no install and no other task's sync in between, every
\* store of the second run leaves the group's stacks as they were after the
\* first.
C14_SyncIdempotentAsStated ==
  [][\A t \in Tasks : (SyncStoreStep(t) /\ fresh[t]) =>
       syscallFilters' = syscallFilters]_vars

\* C14 (sync idempotence, amended): when task t runs its sync again after
\* a sync of t that ran with no install and no other task's sync running
\* beside it, and none has run since, no step up to the second return
\* changes any task's stack: every store of the second run stores what the
\* sibling already holds, so the group's stacks after the second run are
\* those after the first.
C14_SyncIdempotent ==
  /\ [][(\E t \in Tasks : quiet[t] /\ quiet'[t]) => syscallFilters' = syscallFilters]_vars
  /\ [][\A t \in Tasks : (SyncStoreStep(t) /\ quiet[t]) =>
          /\ syscallFilters' = syscallFilters
          /\ quiet'[t]]_vars
  /\ [](\A t \in Tasks : quiet[t] => fresh[t])
  /\ [](returned.op = "sync" /\ returned.quiet =>
          /\ returned.again
          /\ returned.visited = Tasks \ {returned.t}
          /\ returned.f = syscallFilters[returned.t]
          /\ \A o \in Tasks \ {returned.t} :
               syscallFilters[o] = copiedFilters(returned.f, o))

\* a second sync in a row of a stack of two filters has returned
C14_Witness ==
  /\ returned.op = "sync"
  /\ returned.quiet
  /\ Len(returned.f.progs) = 2
  /\ quiet[returned.t]

\* len(p) plus, for every filter of progs, its length and 4
thresholdSum(prog, progs) == Length(prog) + sumLength(progs) + 4 * Len(progs)

\* C15 (exact capacity threshold): an install of p on a task holding stack S
\* returns nil if and only if len(p) + the sum over S of (len + 4) is at
\* most 32768, and ENOMEM otherwise; a total of exactly 32768 is accepted.
C15_ExactThreshold ==
  returned.op = "append" =>
    /\ returned.err \in {"nil", "ENOMEM"}
    /\ (returned.err = "nil" <=>
          thresholdSum(returned.p, returned.before.progs) <= maxSyscallFilterInstructions)
    /\ (returned.err = "ENOMEM" <=>
          thresholdSum(returned.p, returned.before.progs) > maxSyscallFilterInstructions)

\* an install whose total is exactly 32768 returned nil
C15_Witness ==
  /\ returned.op = "append"
  /\ returned.err = "nil"
  /\ Len(returned.before.progs) = 1
  /\ thresholdSum(returned.p, returned.before.progs) = maxSyscallFilterInstructions

\* an install whose total is 32769 returned ENOMEM
C15_WitnessOver ==
  /\ returned.op = "append"
  /\ returned.err = "ENOMEM"
  /\ thresholdSum(returned.p, returned.before.progs) = maxSyscallFilterInstructions + 1

\* C16 (a successful install appends): when an install of p on task t
\* returns nil, t's stack is the stack t held when the call took t.mu, in
\* the same order, with p as its last element, one longer, and SeccompMode(t)
\* is FILTER; the stack is published by the one storing step, the steps of
\* the call before it changing no stack.
C16_InstallAppends ==
  /\ [](returned.op = "append" /\ returned.err = "nil" =>
          /\ ~syscallFilters[returned.t].nil
          /\ syscallFilters[returned.t].progs = returned.before.progs \o <<returned.p>>
          /\ Len(syscallFilters[returned.t].progs) = Len(returned.before.progs) + 1
          /\ \A i \in 1..Len(returned.before.progs) :
               syscallFilters[returned.t].progs[i] = returned.before.progs[i]
          /\ syscallFilters[returned.t].progs[Len(returned.before.progs) + 1] = returned.p
          /\ SeccompMode(returned.t) = SECCOMP_MODE_FILTER)
  /\ [][\A t \in Tasks :
          /\ (AppendStep(t) /\ ~AppendStoreStep(t)) => syscallFilters' = syscallFilters
          /\ AppendStoreStep(t) => returned'.op = "append" /\ returned'.err = "nil"]_vars

\* an install of a second, different filter returned nil
C16_Witness ==
  /\ returned.op = "append"
  /\ returned.err = "nil"
  /\ Len(returned.before.progs) = 1
  /\ returned.before.progs[1] # returned.p

\* the return value of the most recently installed filter among those of
\* progs whose action is the least of the stack (KILL for a failing filter)
mostRecentOfLeast(progs, in) ==
  LET m == minAction(stackActions(progs, in))
      ties == {i \in 1..Len(progs) : actionOf(filterVerdict(progs[i], in)) = m}
      last == CHOOSE i \in ties : \A j \in ties : j <= i
  IN filterVerdict(progs[last], in)

\* C17 as first stated: for every least action, ALLOW included, the
\* combined verdict is the return value of the most recently installed
\* filter among those of least action.
C17_TieBreakAsStated ==
  (checked /\ Len(checkedStack) > 0) =>
    chk.verdict = mostRecentOfLeast(checkedStack, checkedInput)

\* C17 (tie-break of auxiliary data, amended): when the least action of the
\* stack is below ALLOW the combined verdict, action and data, is the return
\* value of the most recently installed filter among those of least action;
\* when every filter returns ALLOW the combined verdict is SECCOMP_RET_ALLOW
\* with data 0, whatever data the filters returned.
C17_TieBreak ==
  (checked /\ Len(checkedStack) > 0) =>
    chk.verdict =
      IF minAction(stackActions(checkedStack, checkedInput)) = SECCOMP_RET_ALLOW
      THEN SECCOMP_RET_ALLOW
      ELSE mostRecentOfLeast(checkedStack, checkedInput)

\* two filters tie on the least action with different data, the older one
\* first in the stack, and the verdict carries the newer one's data
C17_Witness ==
  /\ checked
  /\ \E i, j \in 1..Len(checkedStack) :
       /\ i < j
       /\ actionOf(filterVerdict(checkedStack[i], checkedInput)) = actionOf(chk.verdict)
       /\ filterVerdict(checkedStack[j], checkedInput) = chk.verdict
       /\ filterVerdict(checkedStack[i], checkedInput) # chk.verdict
  /\ actionOf(chk.verdict) = SECCOMP_RET_ERRNO

\* the five action codes the switch names
knownActions == {SECCOMP_RET_KILL, SECCOMP_RET_TRAP, SECCOMP_RET_ERRNO, SECCOMP_RET_TRACE,
                 SECCOMP_RET_ALLOW}

\* some filter of the checked stack returns an action outside the five
someUnrecognized ==
  \E i \in 1..Len(checkedStack) :
    /\ ~Exec(checkedStack[i], checkedInput).err
    /\ actionOf(Exec(checkedStack[i], checkedInput).ret) \notin knownActions

\* C18 as first stated: when some filter of the stack returns an action
\* outside the five, checkSeccompSyscall returns Kill whatever the other
\* filters return.
C18_UnrecognizedKillsAsStated ==
  (checked /\ someUnrecognized) => chk.result = seccompResultKill

\* C18 (unrecognized action, amended): an action outside the five takes
\* part in the reduction by its own code; when some filter returns one,
\* checkSeccompSyscall never returns Allow, it returns Kill exactly when the
\* least action of the stack is KILL or outside the five, and otherwise the
\* result of the least action, which is a known one below the unrecognized.
C18_UnrecognizedFailClosed ==
  (checked /\ someUnrecognized) =>
    LET m == minAction(stackActions(checkedStack, checkedInput))
    IN /\ chk.result # seccompResultAllow
       /\ actionOf(chk.verdict) = m
       /\ chk.result = outcomeTable(m, chk.tracer)
       /\ (chk.result = seccompResultKill <=>
             m \notin {SECCOMP_RET_TRAP, SECCOMP_RET_ERRNO, SECCOMP_RET_TRACE})

\* the unrecognized action is the least of a stack whose other filters
\* return neither ALLOW nor KILL, and the task is killed
C18_Witness ==
  /\ checked
  /\ someUnrecognized
  /\ Len(checkedStack) >= 2
  /\ actionOf(chk.verdict) \notin knownActions
  /\ \E i \in 1..Len(checkedStack) :
       actionOf(filterVerdict(checkedStack[i], checkedInput))
         \in {SECCOMP_RET_ERRNO, SECCOMP_RET_TRACE}
  /\ chk.result = seccompResultKill

\* the per-task mutexes the goroutine of task u holds
heldBy(u) == {o \in Tasks : mu[o] = u}

\* the call of task t can take its next step
canStep(t) ==
  \/ pc[t] \in {"a_load", "a_store", "s_store", "s_runlock"}
  \/ pc[t] = "s_lock" /\ otLockFree(t)

C20_SyncsConverge ==
  (batch.ok /\ Cardinality(batch.tasks) >= 2 /\ ~syncRunning) =>
    \E s \in batch.loaded : \A t \in Tasks : syscallFilters[t].progs = s
====
